---- MODULE Spec2Model ----
(***************************************************************************)
(* Event booking API: the booking and event handlers (Express + Sequelize  *)
(* on PostgreSQL, default READ COMMITTED isolation, no explicit locks).    *)
(* A query reads the committed tables at the moment it runs.  The writes   *)
(* of a transaction are invisible until its commit, and a statement that   *)
(* meets a row another transaction has written and not committed (an       *)
(* UPDATE of that row, an INSERT with the same unique key) waits for that  *)
(* transaction to end: so the writes and the commit of a transaction are   *)
(* one step here, taken at the commit.  Authentication, body validation    *)
(* and sequelize.transaction() touch no table: they are part of the step   *)
(* of the handler's first query.                                           *)
(***************************************************************************)
EXTENDS Integers, Sequences, FiniteSets, TLC

\* ---------------------------------------------------------------- bounds
NumUsers == 2
NumEvents == 1
MaxSeats == 2
MaxTime == 1
NumProcs == 2

\* ------------------------------------------------------ program constants
MinSeatsPerBooking == 1
MaxSeatsPerBooking == 10

Users == 1..NumUsers
Admins == {0}
Principals == Users \cup Admins
EventIds == 1..NumEvents
Procs == 1..NumProcs
Times == 0..MaxTime
Prices == {0, 5}
\* numberOfSeats of a request body: the valid values the seat counts can
\* meet, and one value on each side of the schema's range
SeatRequests == (0..(MaxSeats + 1)) \cup {MaxSeatsPerBooking + 1}
\* ids a cancel request may name (a booking that exists or not)
BookingIds == 1..(NumUsers * NumEvents)

VARIABLES
  events,    \* table events: EventIds -> row (exists = FALSE: no such row)
  bookings,  \* table bookings: sequence of committed rows, id = position
  now,       \* the clock read by new Date()
  tx         \* per request slot: the handler's position and local variables

vars == <<events, bookings, now, tx>>

\* --------------------------------------------------------------- records
NoEvent ==
  [exists |-> FALSE, totalSeats |-> 0, availableSeats |-> 0, price |-> 0,
   isActive |-> FALSE, datetime |-> 0, lastReserve |-> 0, lastRead |-> 0]

NoBooking ==
  [userId |-> 0, eventId |-> 0, numberOfSeats |-> 0, totalAmount |-> 0,
   status |-> "none"]

NoBody == [totalSeats |-> 0, price |-> -1, datetime |-> 0]

\* a slot with no request: pc = "done", kind = "none"
Idle ==
  [kind |-> "none", pc |-> "done", user |-> 0, eventId |-> 0, bookingId |-> 0,
   numberOfSeats |-> 0, body |-> NoBody, event |-> NoEvent, booking |-> NoBooking,
   res |-> 0, message |-> "", seatsReported |-> -1, roundTrip |-> FALSE,
   before |-> 0, rows |-> {}]

\* the fields of a row read that a handler uses after the read
SeatFields(ev) ==
  [NoEvent EXCEPT !.exists = ev.exists, !.totalSeats = ev.totalSeats,
                  !.availableSeats = ev.availableSeats]

PricedFields(ev) == [SeatFields(ev) EXCEPT !.price = ev.price]

BookingFields(bk) ==
  [NoBooking EXCEPT !.userId = bk.userId, !.eventId = bk.eventId,
                    !.numberOfSeats = bk.numberOfSeats, !.status = bk.status]

RoleAlwaysAdmin(u) == "admin"

Role(u) == IF u \in Admins THEN "admin" ELSE "user"

Running(q) == tx[q].pc # "done"

\* the slot p starts request r
Begin(p, r) == [tx EXCEPT ![p] = r]

\* the handler of slot p has its answer: an HTTP status and a message
Finish(p, code, msg) ==
  [tx EXCEPT ![p].pc = "respond", ![p].res = code, ![p].message = msg]

Goto(p, label) == [tx EXCEPT ![p].pc = label]

\* --------------------------------------------------------------- queries
BookingIdx == 1..Len(bookings)

\* Event.findOne({id, isActive: true, datetime >= new Date()})
FindBookableEventAnyStatus(e) ==
  IF events[e].exists /\ events[e].datetime >= now
  THEN events[e] ELSE NoEvent

FindBookableEvent(e) ==
  IF events[e].exists /\ events[e].isActive /\ events[e].datetime >= now
  THEN events[e] ELSE NoEvent

\* Event.findByPk(id)
FindEventByPk(e) == events[e]

\* Booking.findOne({userId, eventId, status != "cancelled"}) is not null
ExistingBooking(u, e) ==
  \E i \in BookingIdx :
    /\ bookings[i].userId = u
    /\ bookings[i].eventId = e
    /\ bookings[i].status # "cancelled"

\* Booking.findOne({id, userId}) with its event
FindBookingAnyOwner(b, u) ==
  IF b \in BookingIdx THEN bookings[b] ELSE NoBooking

FindOwnBooking(b, u) ==
  IF b \in BookingIdx /\ bookings[b].userId = u THEN bookings[b] ELSE NoBooking

\* the unique index (userId, eventId) rejects the row
UniqueViolationNoIndex(u, e) == FALSE

UniqueViolation(u, e) ==
  \E i \in BookingIdx : bookings[i].userId = u /\ bookings[i].eventId = e

\* ------------------------------------------------------- pure computations
\* bookingSchema: numberOfSeats integer, min 1, max 10
ValidBookingBodyNoMin(n) == n <= MaxSeatsPerBooking

ValidBookingBody(n) == n >= MinSeatsPerBooking /\ n <= MaxSeatsPerBooking

\* the checks after the two reads of the create-booking handler, in order:
\* 409 duplicate, 400 insufficient seats, 0 go on
ReserveCheckSeatsFirst(ev, existing, n) ==
  IF ev.availableSeats < n THEN 400
  ELSE IF existing THEN 409
  ELSE 0

ReserveCheck(ev, existing, n) ==
  IF existing THEN 409
  ELSE IF ev.availableSeats < n THEN 400
  ELSE 0

TotalAmountOneSeat(price, n) == price

TotalAmount(price, n) == price * n

SeatsAfterReserve(ev, n) == ev.availableSeats - n

SeatsAfterCancelOne(ev, bk) == ev.availableSeats + 1

SeatsAfterCancel(ev, bk) == ev.availableSeats + bk.numberOfSeats

\* Event model validators run by instance.update({availableSeats})
AvailableSeatsValid(total, avail) == avail >= 0 /\ avail <= total

\* the checks of the cancel handler after its read, in order
CancelCheckNoStatus(bk, ev, t) ==
  IF bk.status = "none" THEN 404
  ELSE IF ev.datetime < t THEN 400
  ELSE 0

CancelCheckStartInclusive(bk, ev, t) ==
  IF bk.status = "none" THEN 404
  ELSE IF bk.status = "cancelled" THEN 400
  ELSE IF ev.datetime <= t THEN 400
  ELSE 0

CancelCheck(bk, ev, t) ==
  IF bk.status = "none" THEN 404
  ELSE IF bk.status = "cancelled" THEN 400
  ELSE IF ev.datetime < t THEN 400
  ELSE 0

CancelMessage(bk, ev, t) ==
  IF bk.status = "none" THEN "Booking not found"
  ELSE IF bk.status = "cancelled" THEN "Booking is already cancelled"
  ELSE IF ev.datetime < t THEN "Cannot cancel booking for past events"
  ELSE ""

RECURSIVE SumSeats(_, _)
\* sum of numberOfSeats over the non-cancelled rows 1..i of event e
SumSeats(e, i) ==
  IF i = 0 THEN 0
  ELSE SumSeats(e, i - 1)
       + (IF bookings[i].eventId = e /\ bookings[i].status # "cancelled"
          THEN bookings[i].numberOfSeats ELSE 0)

BookedSeats(e) == SumSeats(e, Len(bookings))

\* ------------------------------------------------------------------ Init
Init ==
  /\ events = [e \in EventIds |-> NoEvent]
  /\ bookings = << >>
  /\ now = 0
  /\ tx = [p \in Procs |-> Idle]

\* ------------------------------------------------- POST /api/bookings
\* validateRequest(bookingSchema), sequelize.transaction(), Event.findOne;
\* 400 for a body out of the schema, 404 when there is no bookable event
ReserveFindEvent(p, u, e, n) ==
  /\ ~Running(p)
  /\ LET r == [Idle EXCEPT !.kind = "reserve", !.user = u, !.eventId = e,
                           !.numberOfSeats = n]
         ev == FindBookableEvent(e)
     IN IF ~ValidBookingBody(n)
        THEN tx' = Begin(p, [r EXCEPT !.pc = "respond", !.res = 400,
                                      !.message = "Validation error"])
        ELSE IF ~ev.exists
        THEN tx' = Begin(p, [r EXCEPT !.pc = "respond", !.res = 404,
                               !.message = "Event not found or not available for booking"])
        ELSE tx' = Begin(p, [r EXCEPT !.pc = "r_existing", !.event = PricedFields(ev)])
  /\ UNCHANGED <<events, bookings, now>>

\* Booking.findOne for a duplicate, then the seat check on the event read
ReserveFindExisting(p) ==
  /\ tx[p].kind = "reserve" /\ tx[p].pc = "r_existing"
  /\ LET c == ReserveCheck(tx[p].event,
                           ExistingBooking(tx[p].user, tx[p].eventId),
                           tx[p].numberOfSeats)
     IN CASE c = 409 -> tx' = Finish(p, 409, "You already have a booking for this event")
          [] c = 400 -> tx' = [Finish(p, 400, "Only N seats available") EXCEPT
                                 ![p].seatsReported = tx[p].event.availableSeats]
          [] OTHER   -> tx' = Goto(p, "r_write")
  /\ UNCHANGED <<events, bookings, now>>

\* the row Booking.create inserts
NewBookingPending(u, e, n, ev) ==
  [userId |-> u, eventId |-> e, numberOfSeats |-> n,
   totalAmount |-> TotalAmount(ev.price, n), status |-> "pending"]

NewBooking(u, e, n, ev) ==
  [userId |-> u, eventId |-> e, numberOfSeats |-> n,
   totalAmount |-> TotalAmount(ev.price, n), status |-> "confirmed"]

\* Booking.create, event.update({availableSeats: event.availableSeats -
\* numberOfSeats}), transaction.commit(); a unique violation or a validation
\* error is caught, rolled back and answered by the error handler
ReserveWriteRetry(p) ==
  /\ tx[p].kind = "reserve" /\ tx[p].pc = "r_write"
  /\ LET e == tx[p].eventId
         n == tx[p].numberOfSeats
     IN IF UniqueViolation(tx[p].user, e)
        THEN /\ tx' = [tx EXCEPT ![p].pc = "r_existing",
                                 ![p].event = PricedFields(events[e])]
             /\ UNCHANGED <<events, bookings>>
        ELSE IF ~AvailableSeatsValid(tx[p].event.totalSeats,
                                     SeatsAfterReserve(tx[p].event, n))
        THEN /\ tx' = Finish(p, 400, "Validation error")
             /\ UNCHANGED <<events, bookings>>
        ELSE /\ bookings' = Append(bookings, NewBooking(tx[p].user, e, n, tx[p].event))
             /\ events' = [events EXCEPT
                             ![e].availableSeats = SeatsAfterReserve(tx[p].event, n),
                             ![e].lastReserve = Len(bookings) + 1,
                             ![e].lastRead = tx[p].event.availableSeats]
             /\ tx' = [tx EXCEPT ![p].pc = "r_fetch", ![p].bookingId = Len(bookings) + 1]
  /\ UNCHANGED now

ReserveWrite(p) ==
  /\ tx[p].kind = "reserve" /\ tx[p].pc = "r_write"
  /\ LET e == tx[p].eventId
         n == tx[p].numberOfSeats
     IN IF UniqueViolation(tx[p].user, e)
        THEN /\ tx' = Finish(p, 409, "Resource already exists")
             /\ UNCHANGED <<events, bookings>>
        ELSE IF ~AvailableSeatsValid(tx[p].event.totalSeats,
                                     SeatsAfterReserve(tx[p].event, n))
        THEN /\ tx' = Finish(p, 400, "Validation error")
             /\ UNCHANGED <<events, bookings>>
        ELSE /\ bookings' = Append(bookings, NewBooking(tx[p].user, e, n, tx[p].event))
             /\ events' = [events EXCEPT
                             ![e].availableSeats = SeatsAfterReserve(tx[p].event, n),
                             ![e].lastReserve = Len(bookings) + 1,
                             ![e].lastRead = tx[p].event.availableSeats]
             /\ tx' = [tx EXCEPT ![p].pc = "r_fetch", ![p].bookingId = Len(bookings) + 1]
  /\ UNCHANGED now

\* Booking.findByPk with the event, res.status(201)
ReserveFetch(p) ==
  /\ tx[p].kind = "reserve" /\ tx[p].pc = "r_fetch"
  /\ tx' = Finish(p, 201, "Booking created successfully")
  /\ UNCHANGED <<events, bookings, now>>

\* ------------------------------------------ PATCH /api/bookings/:id/cancel
\* sequelize.transaction(), Booking.findOne({id, userId}, include event)
\* and the three checks
CancelFind(p, u, b) ==
  /\ ~Running(p)
  /\ LET r == [Idle EXCEPT !.kind = "cancel", !.user = u, !.bookingId = b]
         bk == FindOwnBooking(b, u)
         ev == IF bk.status = "none" THEN NoEvent ELSE events[bk.eventId]
         c == CancelCheck(bk, ev, now)
     IN IF c = 0
        THEN tx' = Begin(p, [r EXCEPT !.pc = "c_write", !.booking = BookingFields(bk),
                                      !.event = SeatFields(ev), !.eventId = bk.eventId])
        ELSE tx' = Begin(p, [r EXCEPT !.pc = "respond", !.res = c,
                                      !.message = CancelMessage(bk, ev, now),
                                      !.booking = BookingFields(bk)])
  /\ UNCHANGED <<events, bookings, now>>

\* booking.update({status: "cancelled"}), booking.event.update({availableSeats:
\* availableSeats + numberOfSeats}), transaction.commit(), res.json; a
\* validation error is caught, rolled back and answered 400
CancelWriteEveryEvent(p) ==
  /\ tx[p].kind = "cancel" /\ tx[p].pc = "c_write"
  /\ LET e == tx[p].eventId
         b == tx[p].bookingId
     IN IF ~AvailableSeatsValid(tx[p].event.totalSeats,
                                SeatsAfterCancel(tx[p].event, tx[p].booking))
        THEN /\ tx' = Finish(p, 400, "Validation error")
             /\ UNCHANGED <<events, bookings>>
        ELSE /\ bookings' = [bookings EXCEPT ![b].status = "cancelled"]
             /\ events' = [x \in DOMAIN events |->
                             [events[x] EXCEPT
                                !.availableSeats =
                                   SeatsAfterCancel(tx[p].event, tx[p].booking),
                                !.lastReserve = 0,
                                !.lastRead = 0]]
             /\ tx' = [Finish(p, 200, "Booking cancelled successfully") EXCEPT
                         ![p].roundTrip = (events[e].lastReserve = b),
                         ![p].before = events[e].lastRead]
  /\ UNCHANGED now

CancelWrite(p) ==
  /\ tx[p].kind = "cancel" /\ tx[p].pc = "c_write"
  /\ LET e == tx[p].eventId
         b == tx[p].bookingId
     IN IF ~AvailableSeatsValid(tx[p].event.totalSeats,
                                SeatsAfterCancel(tx[p].event, tx[p].booking))
        THEN /\ tx' = Finish(p, 400, "Validation error")
             /\ UNCHANGED <<events, bookings>>
        ELSE /\ bookings' = [bookings EXCEPT ![b].status = "cancelled"]
             /\ events' = [events EXCEPT
                             ![e].availableSeats =
                                SeatsAfterCancel(tx[p].event, tx[p].booking),
                             ![e].lastReserve = 0,
                             ![e].lastRead = 0]
             /\ tx' = [Finish(p, 200, "Booking cancelled successfully") EXCEPT
                         ![p].roundTrip = (events[e].lastReserve = b),
                         ![p].before = events[e].lastRead]
  /\ UNCHANGED now

\* ---------------------------------------------------- POST /api/events
\* eventSchema: totalSeats >= 1, price >= 0, datetime greater than now
ValidEventBody(total, price, dt) == total >= 1 /\ price >= 0 /\ dt > now

\* the first id no event has
FreeEventId ==
  CHOOSE x \in EventIds :
    /\ ~events[x].exists
    /\ \A y \in EventIds : ~events[y].exists => x <= y

\* the row Event.create inserts
NewEventSeatsUnset(total, price, dt) ==
  [exists |-> TRUE, totalSeats |-> total, availableSeats |-> 0,
   price |-> price, isActive |-> TRUE, datetime |-> dt,
   lastReserve |-> 0, lastRead |-> 0]

NewEvent(total, price, dt) ==
  [exists |-> TRUE, totalSeats |-> total, availableSeats |-> total,
   price |-> price, isActive |-> TRUE, datetime |-> dt,
   lastReserve |-> 0, lastRead |-> 0]

\* requireAdmin, validateRequest(eventSchema), Event.create
CreateEvent(p, u, total, price, dt) ==
  /\ ~Running(p)
  /\ \E x \in EventIds : ~events[x].exists
  /\ LET r == [Idle EXCEPT !.kind = "create", !.user = u, !.pc = "respond",
                           !.body = [totalSeats |-> total, price |-> price,
                                     datetime |-> dt]]
     IN IF Role(u) # "admin"
        THEN /\ tx' = Begin(p, [r EXCEPT !.res = 403, !.message = "Admin access required"])
             /\ events' = events
        ELSE IF ~ValidEventBody(total, price, dt)
        THEN /\ tx' = Begin(p, [r EXCEPT !.res = 400, !.message = "Validation error"])
             /\ events' = events
        ELSE /\ events' = [events EXCEPT ![FreeEventId] = NewEvent(total, price, dt)]
             /\ tx' = Begin(p, [r EXCEPT !.res = 201, !.eventId = FreeEventId,
                                         !.message = "Event created successfully"])
  /\ UNCHANGED <<bookings, now>>

\* ------------------------------------------------- PUT /api/events/:id
\* req.body.availableSeats = req.body.totalSeats - (totalSeats - availableSeats)
UpdatedAvailableSeats(ev, total) == total - (ev.totalSeats - ev.availableSeats)

\* the in-memory event after set(req.body); totalSeats = 0 and price = -1
\* stand for a field the body does not give
UpdatedEvent(ev, body) ==
  [ev EXCEPT
     !.totalSeats = IF body.totalSeats # 0 THEN body.totalSeats ELSE @,
     !.availableSeats = IF body.totalSeats # 0
                        THEN UpdatedAvailableSeats(ev, body.totalSeats) ELSE @,
     !.price = IF body.price # -1 THEN body.price ELSE @]

\* requireAdmin, validateRequest(eventUpdateSchema), Event.findByPk, then
\* the booked-seats check when totalSeats is given
UpdateFind(p, u, e, total, price) ==
  /\ ~Running(p)
  /\ LET r == [Idle EXCEPT !.kind = "update", !.user = u, !.eventId = e,
                           !.body = [totalSeats |-> total, price |-> price,
                                     datetime |-> 0]]
         ev == FindEventByPk(e)
     IN IF Role(u) # "admin"
        THEN tx' = Begin(p, [r EXCEPT !.pc = "respond", !.res = 403,
                                      !.message = "Admin access required"])
        ELSE IF ~ev.exists
        THEN tx' = Begin(p, [r EXCEPT !.pc = "respond", !.res = 404,
                                      !.message = "Event not found"])
        ELSE IF total # 0 /\ UpdatedAvailableSeats(ev, total) < 0
        THEN tx' = Begin(p, [r EXCEPT !.pc = "respond", !.res = 400,
                               !.message = "Cannot reduce total seats below already booked seats",
                               !.event = SeatFields(ev)])
        ELSE tx' = Begin(p, [r EXCEPT !.pc = "u_write", !.event = PricedFields(ev)])
  /\ UNCHANGED <<events, bookings, now>>

\* event.update(req.body): validators on the in-memory row, then, when set()
\* changed a field of it, an UPDATE of the given columns outside any
\* transaction (save() issues no statement when nothing changed)
UpdateWriteReprice(p) ==
  /\ tx[p].kind = "update" /\ tx[p].pc = "u_write"
  /\ LET e == tx[p].eventId
         given == tx[p].body.totalSeats # 0
         upd == UpdatedEvent(tx[p].event, tx[p].body)
     IN IF ~AvailableSeatsValid(upd.totalSeats, upd.availableSeats)
        THEN /\ events' = events
             /\ bookings' = bookings
             /\ tx' = Finish(p, 400, "Validation error")
        ELSE IF upd = tx[p].event
        THEN /\ events' = events
             /\ bookings' = bookings
             /\ tx' = Finish(p, 200, "Event updated successfully")
        ELSE /\ events' = [events EXCEPT
                   ![e].totalSeats = IF given THEN upd.totalSeats ELSE @,
                   ![e].availableSeats = IF given THEN upd.availableSeats ELSE @,
                   ![e].lastReserve = IF given THEN 0 ELSE @,
                   ![e].lastRead = IF given THEN 0 ELSE @,
                   ![e].price = IF tx[p].body.price # -1 THEN tx[p].body.price ELSE @]
             /\ bookings' = [i \in BookingIdx |->
                   IF bookings[i].eventId = e /\ tx[p].body.price # -1
                   THEN [bookings[i] EXCEPT
                           !.totalAmount = tx[p].body.price * bookings[i].numberOfSeats]
                   ELSE bookings[i]]
             /\ tx' = Finish(p, 200, "Event updated successfully")
  /\ UNCHANGED now

UpdateWrite(p) ==
  /\ tx[p].kind = "update" /\ tx[p].pc = "u_write"
  /\ LET e == tx[p].eventId
         given == tx[p].body.totalSeats # 0
         upd == UpdatedEvent(tx[p].event, tx[p].body)
     IN IF ~AvailableSeatsValid(upd.totalSeats, upd.availableSeats)
        THEN /\ events' = events
             /\ tx' = Finish(p, 400, "Validation error")
        ELSE IF upd = tx[p].event
        THEN /\ events' = events
             /\ tx' = Finish(p, 200, "Event updated successfully")
        ELSE /\ events' = [events EXCEPT
                   ![e].totalSeats = IF given THEN upd.totalSeats ELSE @,
                   ![e].availableSeats = IF given THEN upd.availableSeats ELSE @,
                   ![e].lastReserve = IF given THEN 0 ELSE @,
                   ![e].lastRead = IF given THEN 0 ELSE @,
                   ![e].price = IF tx[p].body.price # -1 THEN tx[p].body.price ELSE @]
             /\ tx' = Finish(p, 200, "Event updated successfully")
  /\ UNCHANGED <<bookings, now>>

\* ---------------------------------------------- DELETE /api/events/:id
\* requireAdmin, Event.findByPk
DeleteFind(p, u, e) ==
  /\ ~Running(p)
  /\ LET r == [Idle EXCEPT !.kind = "delete", !.user = u, !.eventId = e]
         ev == FindEventByPk(e)
     IN IF Role(u) # "admin"
        THEN tx' = Begin(p, [r EXCEPT !.pc = "respond", !.res = 403,
                                      !.message = "Admin access required"])
        ELSE IF ~ev.exists
        THEN tx' = Begin(p, [r EXCEPT !.pc = "respond", !.res = 404,
                                      !.message = "Event not found"])
        ELSE tx' = Begin(p, [r EXCEPT !.pc = "d_write", !.event = SeatFields(ev)])
  /\ UNCHANGED <<events, bookings, now>>

\* event.update({isActive: false}): validators on the in-memory row, UPDATE
DeleteWrite(p) ==
  /\ tx[p].kind = "delete" /\ tx[p].pc = "d_write"
  /\ LET e == tx[p].eventId
     IN IF AvailableSeatsValid(tx[p].event.totalSeats, tx[p].event.availableSeats)
        THEN /\ events' = [events EXCEPT ![e].isActive = FALSE]
             /\ tx' = Finish(p, 200, "Event deleted successfully")
        ELSE /\ events' = events
             /\ tx' = Finish(p, 400, "Validation error")
  /\ UNCHANGED <<bookings, now>>

\* ------------------------------------------------- GET /api/bookings
\* Booking.findAll({where: {userId: req.user.id}}): the ids of the rows
BookingsOfAnyone(u) == BookingIdx

BookingsOf(u) == {i \in BookingIdx : bookings[i].userId = u}

\* authenticateToken, Booking.findAll, res.json({bookings})
ListBookings(p, u) ==
  /\ ~Running(p)
  /\ tx' = Begin(p, [Idle EXCEPT !.kind = "list", !.user = u, !.pc = "respond",
                                 !.res = 200, !.rows = BookingsOf(u)])
  /\ UNCHANGED <<events, bookings, now>>

\* --------------------------------------------- GET /api/bookings/:id
\* authenticateToken, Booking.findOne({id, userId: req.user.id}), 404 or
\* res.json({booking})
GetBooking(p, u, b) ==
  /\ ~Running(p)
  /\ LET r == [Idle EXCEPT !.kind = "detail", !.user = u, !.bookingId = b,
                           !.pc = "respond"]
         bk == FindOwnBooking(b, u)
     IN IF bk.status = "none"
        THEN tx' = Begin(p, [r EXCEPT !.res = 404, !.message = "Booking not found"])
        ELSE tx' = Begin(p, [r EXCEPT !.res = 200, !.rows = {b},
                                      !.booking = BookingFields(bk)])
  /\ UNCHANGED <<events, bookings, now>>

\* --------------------------------------------------------------- response
\* res.status(code).json(...): the answer leaves, the handler's locals are gone
Respond(p) ==
  /\ tx[p].pc = "respond"
  /\ tx' = [tx EXCEPT ![p] = Idle]
  /\ UNCHANGED <<events, bookings, now>>

\* ------------------------------------------------------------------ time
Tick ==
  /\ now < MaxTime + 1
  /\ now' = now + 1
  /\ UNCHANGED <<events, bookings, tx>>

\* ----------------------------------------------------------- store errors
\* an await of a write or of the commit rejects (connection lost, statement
\* timeout): catch, transaction.rollback(), next(error), errorHandler's 500
ReserveWriteError(p) ==
  /\ tx[p].kind = "reserve" /\ tx[p].pc = "r_write"
  /\ tx' = Finish(p, 500, "Internal server error")
  /\ UNCHANGED <<events, bookings, now>>

CancelWriteError(p) ==
  /\ tx[p].kind = "cancel" /\ tx[p].pc = "c_write"
  /\ tx' = Finish(p, 500, "Internal server error")
  /\ UNCHANGED <<events, bookings, now>>

\* Booking.findByPk after the commit rejects: catch, transaction.rollback()
\* on the finished transaction throws inside the catch block, next(error) is
\* never reached and the handler's promise rejects with nobody to handle it
\* (Express 4): no response is ever sent for the request
ReserveFetchError(p) ==
  /\ tx[p].kind = "reserve" /\ tx[p].pc = "r_fetch"
  /\ tx' = [tx EXCEPT ![p].pc = "hung", ![p].message = "unhandled rejection"]
  /\ UNCHANGED <<events, bookings, now>>

\* --------------------------------------------------------- specification
\* a booking request arrives in a slot of P, or one in flight goes on
BookingStep(P, seats) ==
  \/ \E p \in P, u \in Users, e \in EventIds, n \in seats :
       ReserveFindEvent(p, u, e, n)
  \/ \E p \in P : ReserveFindExisting(p)
  \/ \E p \in P : ReserveWrite(p)
  \/ \E p \in P : ReserveFetch(p)
  \/ \E p \in P, u \in Users, b \in BookingIds : CancelFind(p, u, b)
  \/ \E p \in P : CancelWrite(p)

\* an event is created
CreateStep(P, callers, totals, prices, times) ==
  \E p \in P, u \in callers, total \in totals, price \in prices, dt \in times :
    CreateEvent(p, u, total, price, dt)

\* an event is updated or deleted
ManageStep(P, callers, newTotals, newPrices) ==
  \/ \E p \in P, u \in callers, e \in EventIds, total \in newTotals,
        price \in newPrices :
       UpdateFind(p, u, e, total, price)
  \/ \E p \in P : UpdateWrite(p)
  \/ \E p \in P, u \in callers, e \in EventIds : DeleteFind(p, u, e)
  \/ \E p \in P : DeleteWrite(p)

\* concurrent requests at one instant: admins manage events, users book
Next ==
  \/ BookingStep(Procs, 1..MaxSeats)
  \/ CreateStep(Procs, Admins, 1..MaxSeats, {5}, 1..MaxTime)
  \/ ManageStep(Procs, Admins, 1..MaxSeats, {-1})
  \/ \E p \in Procs : Respond(p)

Spec == Init /\ [][Next]_vars

\* concurrent reserve and cancel requests on events that are not managed
\* meanwhile
NextBook ==
  \/ BookingStep(Procs, 1..MaxSeats)
  \/ CreateStep(Procs, Admins, 1..MaxSeats, Prices, 1..MaxTime)
  \/ \E p \in Procs : Respond(p)

SpecBook == Init /\ [][NextBook]_vars

\* one request at a time, all inputs, the clock moves
NextSeq ==
  \/ BookingStep({1}, SeatRequests)
  \/ CreateStep({1}, Principals, 1..MaxSeats, Prices, Times)
  \/ ManageStep({1}, Principals, 0..MaxSeats, Prices \cup {-1})
  \/ Respond(1)
  \/ Tick

SpecSeq == Init /\ [][NextSeq]_vars

\* N racers: one event with S < N seats, every user asks for one seat once
\* (nobody takes the answers away, so the outcome of the race stays visible)
Racers == 1..(IF NumProcs < NumUsers THEN NumProcs ELSE NumUsers)

InitRace ==
  /\ \E S \in 1..(Cardinality(Racers) - 1), price \in Prices :
       events = [e \in EventIds |->
                   IF e = 1 THEN NewEvent(S, price, MaxTime) ELSE NoEvent]
  /\ bookings = << >>
  /\ now = 0
  /\ tx = [p \in Procs |-> Idle]

NextRace ==
  \/ \E p \in Racers : ReserveFindEvent(p, p, 1, 1)
  \/ \E p \in Racers : ReserveFindExisting(p)
  \/ \E p \in Racers : ReserveWrite(p)
  \/ \E p \in Racers : ReserveFetch(p)
  \/ Tick

SpecRace == InitRace /\ [][NextRace]_vars

\* one request at a time, the store may fail under it
FaultStep(P) ==
  \/ \E p \in P : ReserveWriteError(p)
  \/ \E p \in P : ReserveFetchError(p)
  \/ \E p \in P : CancelWriteError(p)

NextFault ==
  \/ BookingStep({1}, 1..MaxSeats)
  \/ CreateStep({1}, Admins, 1..MaxSeats, Prices, 1..MaxTime)
  \/ FaultStep({1})
  \/ Respond(1)
  \/ Tick

SpecFault == Init /\ [][NextFault]_vars

\* booking requests and booking queries, concurrently
QueryStep(P, callers) ==
  \/ \E p \in P, u \in callers : ListBookings(p, u)
  \/ \E p \in P, u \in callers, b \in BookingIds : GetBooking(p, u, b)

NextQuery ==
  \/ BookingStep(Procs, 1..MaxSeats)
  \/ CreateStep(Procs, Admins, {MaxSeats}, {5}, {MaxTime})
  \/ QueryStep(Procs, Principals)
  \/ \E p \in Procs : Respond(p)

SpecQuery == Init /\ [][NextQuery]_vars

\* one request at a time, event bodies in and out of the schemas
NextAdmin ==
  \/ BookingStep({1}, 1..MaxSeats)
  \/ CreateStep({1}, Principals, 0..MaxSeats, Prices \cup {-1}, Times)
  \/ ManageStep({1}, Admins, 0..MaxSeats, {-1})
  \/ Respond(1)
  \/ Tick

SpecAdmin == Init /\ [][NextAdmin]_vars

\* create-booking and cancel requests on several events, one at a time
FrameEvents == 1..(NumEvents + 1)

InitFrame ==
  /\ events = [e \in FrameEvents |-> NewEvent(MaxSeats, 5, MaxTime)]
  /\ bookings = << >>
  /\ now = 0
  /\ tx = [p \in Procs |-> Idle]

NextFrame ==
  \/ \E p \in {1}, u \in Users, e \in FrameEvents, n \in 1..MaxSeats :
       ReserveFindEvent(p, u, e, n)
  \/ \E p \in {1} : ReserveFindExisting(p)
  \/ \E p \in {1} : ReserveWrite(p)
  \/ \E p \in {1} : ReserveFetch(p)
  \/ \E p \in {1}, u \in Users, b \in 1..(NumUsers * (NumEvents + 1)) :
       CancelFind(p, u, b)
  \/ \E p \in {1} : CancelWrite(p)
  \/ \E p \in {1} : Respond(p)

SpecFrame == InitFrame /\ [][NextFrame]_vars

\* the event loop resumes a handler once the promise it awaits settles
HandlerStep(P) ==
  \/ \E p \in P : ReserveFindExisting(p)
  \/ \E p \in P : ReserveWrite(p) \/ ReserveWriteError(p)
  \/ \E p \in P : ReserveFetch(p) \/ ReserveFetchError(p)
  \/ \E p \in P : CancelWrite(p) \/ CancelWriteError(p)

LiveFault == SpecFault /\ WF_vars(HandlerStep({1}))

\* ------------------------------------------------------------------ claims
Active(i) == bookings[i].status # "cancelled"

\* the create-booking request of slot p has committed its booking
Succeeded(p) ==
  /\ tx[p].kind = "reserve"
  /\ tx[p].pc = "r_fetch" \/ (tx[p].pc = "respond" /\ tx[p].res = 201)

\* C1: in every committed state, for every event, totalSeats -
\* availableSeats is the sum of numberOfSeats over its non-cancelled bookings
C1_SeatInvariant ==
  \A e \in EventIds :
    events[e].exists =>
      events[e].totalSeats - events[e].availableSeats = BookedSeats(e)

\* C2: the seats held by the non-cancelled bookings of an event never
\* exceed its totalSeats
C2_NoOverbooking ==
  \A e \in EventIds : events[e].exists => BookedSeats(e) <= events[e].totalSeats

\* C3: when N users have each asked for one seat of an event with S < N
\* seats and all have their answer, S of them succeeded, N - S were refused
\* for insufficient seats, and no seat is left
RaceOver == \A p \in Racers : tx[p].pc = "respond" /\ tx[p].res # 404

C3_RaceOutcome ==
  RaceOver =>
    /\ Cardinality({p \in Racers : tx[p].res = 201}) = events[1].totalSeats
    /\ Cardinality({p \in Racers : tx[p].res = 400
                                   /\ tx[p].message = "Only N seats available"})
         = Cardinality(Racers) - events[1].totalSeats
    /\ events[1].availableSeats = 0

\* C4: at most one non-cancelled booking per (userId, eventId); of two
\* create-booking requests of one user for one event at most one succeeds,
\* and the other, if the event and the seats let it through, is answered 409
C4_OneActiveBooking ==
  /\ \A i, j \in BookingIdx :
       (i # j /\ bookings[i].userId = bookings[j].userId
              /\ bookings[i].eventId = bookings[j].eventId)
         => ~(Active(i) /\ Active(j))
  /\ \A p, q \in Procs :
       (p # q /\ Succeeded(p) /\ tx[q].kind = "reserve"
              /\ tx[q].user = tx[p].user /\ tx[q].eventId = tx[p].eventId)
         => /\ ~Succeeded(q)
            /\ (tx[q].pc = "respond" /\ tx[q].event.exists
                  /\ tx[q].numberOfSeats <= tx[q].event.availableSeats
                  /\ tx[q].message # "Validation error")
                 => tx[q].res = 409

C4_Witness ==
  \E p, q \in Procs :
    /\ p # q /\ Succeeded(p)
    /\ tx[q].kind = "reserve" /\ tx[q].pc = "respond"
    /\ tx[q].user = tx[p].user /\ tx[q].eventId = tx[p].eventId
    /\ tx[q].res = 409 /\ tx[q].message = "Resource already exists"

\* C5: a step of a create-booking request whose user holds a non-cancelled
\* booking of the event changes no row, and the request, once the event was
\* found bookable, is answered 409, whatever the seats
C5_DuplicateConflict ==
  [][\A p \in Procs :
       (/\ tx'[p] # tx[p]
        /\ tx'[p].kind = "reserve"
        /\ tx[p].pc # "r_fetch"
        /\ ExistingBooking(tx'[p].user, tx'[p].eventId))
         => /\ events' = events
            /\ bookings' = bookings
            /\ (tx'[p].pc = "respond" /\ tx'[p].event.exists) => tx'[p].res = 409]_vars

C5_Witness ==
  \E p \in Procs :
    /\ tx[p].kind = "reserve" /\ tx[p].pc = "respond" /\ tx[p].res = 409
    /\ tx[p].event.exists
    /\ tx[p].numberOfSeats > tx[p].event.availableSeats
    /\ ExistingBooking(tx[p].user, tx[p].eventId)

\* C6: for every event, 0 <= availableSeats <= totalSeats
C6_SeatBounds ==
  \A e \in EventIds :
    events[e].exists =>
      /\ 0 <= events[e].availableSeats
      /\ events[e].availableSeats <= events[e].totalSeats

\* C7: the commit of a create-booking request that nothing interferes with
\* adds exactly one row, confirmed, with the seats asked for and
\* totalAmount = price x numberOfSeats, and takes exactly numberOfSeats from
\* the availableSeats the request read
C7_ReserveEffect ==
  [][\A p \in Procs :
       (tx[p].kind = "reserve" /\ tx[p].pc = "r_write" /\ tx'[p].pc = "r_fetch")
         => LET e == tx[p].eventId
                n == tx[p].numberOfSeats
            IN /\ Len(bookings') = Len(bookings) + 1
               /\ \A i \in BookingIdx : bookings'[i] = bookings[i]
               /\ bookings'[Len(bookings')] =
                    [userId |-> tx[p].user, eventId |-> e, numberOfSeats |-> n,
                     totalAmount |-> events[e].price * n, status |-> "confirmed"]
               /\ tx[p].event.availableSeats = events[e].availableSeats
               /\ events'[e].availableSeats = events[e].availableSeats - n]_vars

C7_Witness ==
  \E p \in Procs :
    /\ tx[p].kind = "reserve" /\ tx[p].pc = "r_fetch"
    /\ tx[p].numberOfSeats > 1
    /\ bookings[tx[p].bookingId].totalAmount > 0

\* C8: after a successful cancel the booking is cancelled and the event has
\* exactly the booking's numberOfSeats more than the cancel read; when the
\* last write of the seat count was the reserve that made the booking, the
\* count is back at what that reserve read
C8_CancelRestores ==
  \A p \in Procs :
    (tx[p].kind = "cancel" /\ tx[p].pc = "respond" /\ tx[p].res = 200)
      => LET e == tx[p].eventId
             b == tx[p].bookingId
         IN /\ bookings[b].status = "cancelled"
            /\ events[e].availableSeats
                 = tx[p].event.availableSeats + bookings[b].numberOfSeats
            /\ tx[p].roundTrip => events[e].availableSeats = tx[p].before

C8_Witness ==
  \E p \in Procs :
    /\ tx[p].kind = "cancel" /\ tx[p].pc = "respond" /\ tx[p].res = 200
    /\ tx[p].roundTrip
    /\ bookings[tx[p].bookingId].numberOfSeats > 1

\* C9: a cancel request for a booking of the caller that is already
\* cancelled is answered 400 "already cancelled" and changes no row
C9_DoubleCancel ==
  [][\A p \in Procs :
       (/\ tx[p].pc = "done"
        /\ tx'[p].kind = "cancel"
        /\ FindOwnBooking(tx'[p].bookingId, tx'[p].user).status = "cancelled")
         => /\ tx'[p].pc = "respond"
            /\ tx'[p].res = 400
            /\ tx'[p].message = "Booking is already cancelled"
            /\ events' = events
            /\ bookings' = bookings]_vars

C9_Witness ==
  \E p \in Procs :
    /\ tx[p].kind = "cancel" /\ tx[p].pc = "respond" /\ tx[p].res = 400
    /\ tx[p].message = "Booking is already cancelled"
    /\ now > 0

\* C10: a valid create-booking request for a bookable event by a user with
\* no non-cancelled booking of it, run alone: asking for exactly
\* availableSeats succeeds and leaves 0; asking for one more is refused 400
\* and the seat count stays
OtherActiveBooking(p) ==
  \E i \in BookingIdx :
    /\ i # tx[p].bookingId
    /\ bookings[i].userId = tx[p].user
    /\ bookings[i].eventId = tx[p].eventId
    /\ Active(i)

C10_Boundary ==
  \A p \in Procs :
    (/\ tx[p].kind = "reserve" /\ tx[p].pc = "respond"
     /\ tx[p].event.exists
     /\ ~OtherActiveBooking(p))
      => /\ tx[p].numberOfSeats = tx[p].event.availableSeats
              => tx[p].res = 201 /\ events[tx[p].eventId].availableSeats = 0
         /\ tx[p].numberOfSeats = tx[p].event.availableSeats + 1
              => /\ tx[p].res = 400
                 /\ events[tx[p].eventId].availableSeats = tx[p].event.availableSeats

\* the request of slot p has ended without success: an error answer, or no
\* answer at all
Failed(t) ==
  \/ t.pc = "respond" /\ t.res \notin {200, 201}
  \/ t.pc = "hung"

\* C11: a step that ends a reserve or cancel request in a failure changes no
\* row, and the request has committed nothing before it (a reserve that
\* fails holds no id of a booking it inserted)
C11_FailureAtomic ==
  [][\A p \in Procs :
       (/\ tx'[p] # tx[p]
        /\ tx'[p].kind \in {"reserve", "cancel"}
        /\ Failed(tx'[p]))
         => /\ events' = events
            /\ bookings' = bookings
            /\ tx'[p].kind = "reserve" => tx'[p].bookingId = 0]_vars

\* the user of slot p's request has a cancelled booking of its event
CancelledBooking(p) ==
  \E i \in BookingIdx :
    /\ bookings[i].userId = tx[p].user
    /\ bookings[i].eventId = tx[p].eventId
    /\ ~Active(i)

\* C12: a create-booking request, run alone, of a user whose bookings of the
\* bookable event are all cancelled, asking for no more than availableSeats,
\* is answered 201 and not 409
C12_RebookAfterCancel ==
  \A p \in Procs :
    (/\ tx[p].kind = "reserve" /\ tx[p].pc = "respond"
     /\ tx[p].event.exists
     /\ tx[p].numberOfSeats <= tx[p].event.availableSeats
     /\ CancelledBooking(p)
     /\ ~OtherActiveBooking(p))
      => tx[p].res = 201

\* C13: when a create-booking request is refused for insufficient seats, the
\* figure in its message is the event's committed availableSeats at that
\* moment, also when other booking requests run concurrently
C13_ReportedSeatsCurrent ==
  [][\A p \in Procs :
       (/\ tx[p].kind = "reserve" /\ tx[p].pc = "r_existing"
        /\ tx'[p].pc = "respond" /\ tx'[p].res = 400)
         => tx'[p].seatsReported = events[tx[p].eventId].availableSeats]_vars

\* the first step of a create-booking request with a valid body, for an
\* event in the given condition, answers 404 and changes no row
NotFoundFirst(Unbookable(_)) ==
  \A p \in Procs :
    (/\ tx[p].pc = "done"
     /\ tx'[p].kind = "reserve"
     /\ ValidBookingBody(tx'[p].numberOfSeats)
     /\ Unbookable(events[tx'[p].eventId]))
      => /\ tx'[p].pc = "respond"
         /\ tx'[p].res = 404
         /\ events' = events
         /\ bookings' = bookings

\* startTime strictly in the future is what makes an event bookable: it has
\* started when startTime <= now
Started(ev) == ev.datetime <= now

StartedBefore(ev) == ev.datetime < now

Unavailable(ev) == ~ev.exists \/ ~ev.isActive \/ Started(ev)

UnavailableBefore(ev) == ~ev.exists \/ ~ev.isActive \/ StartedBefore(ev)

\* C14: a create-booking request with a valid body for an event that does
\* not exist, is inactive or has started is answered 404 in its first step,
\* whatever the user's bookings and the seats, and changes no row
C14_NotFoundFirst == [][NotFoundFirst(Unavailable)]_vars

\* the same for an event that does not exist, is inactive or started
\* strictly before now
NotFoundFirstStrictlyPast == [][NotFoundFirst(UnavailableBefore)]_vars

\* C15: the event lookup of a create-booking request lets an event through
\* only when its startTime is strictly later than now
C15_StrictlyFuture ==
  [][\A p \in Procs :
       (tx[p].pc = "done" /\ tx'[p].kind = "reserve" /\ tx'[p].pc = "r_existing")
         => events[tx'[p].eventId].datetime > now]_vars

\* C16: a cancel request naming no booking or a booking of another user is
\* answered 404 in its first step and changes no row; and every step that
\* changes a booking's status or an event's availableSeats on behalf of a
\* cancel request is taken by a request of the booking's owner
C16_CancelOwnOnly ==
  [][\A p \in Procs :
       /\ (/\ tx[p].pc = "done"
           /\ tx'[p].kind = "cancel"
           /\ \/ tx'[p].bookingId \notin BookingIdx
              \/ bookings[tx'[p].bookingId].userId # tx'[p].user)
            => /\ tx'[p].pc = "respond"
               /\ tx'[p].res = 404
               /\ events' = events
               /\ bookings' = bookings
       /\ (tx[p].kind = "cancel" /\ tx[p].pc = "c_write" /\ tx'[p] # tx[p])
            => /\ bookings[tx[p].bookingId].userId = tx[p].user
               /\ \A i \in BookingIdx :
                    bookings'[i] # bookings[i] => i = tx[p].bookingId
               /\ \A e \in EventIds :
                    events'[e] # events[e] => e = bookings[tx[p].bookingId].eventId]_vars

C16_Witness ==
  \E p \in Procs :
    /\ tx[p].kind = "cancel" /\ tx[p].pc = "respond" /\ tx[p].res = 404
    /\ tx[p].bookingId \in BookingIdx
    /\ bookings[tx[p].bookingId].userId # tx[p].user
    /\ Active(tx[p].bookingId)

\* C17: a cancel request of the owner for a non-cancelled booking is
\* answered 400 "past events" in its first step, changing no row, when the
\* event's startTime is earlier than now, and goes on to its writes when
\* now <= startTime
C17_PastEventCancel ==
  [][\A p \in Procs :
       (/\ tx[p].pc = "done"
        /\ tx'[p].kind = "cancel"
        /\ tx'[p].bookingId \in BookingIdx
        /\ bookings[tx'[p].bookingId].userId = tx'[p].user
        /\ Active(tx'[p].bookingId))
         => LET bk == bookings[tx'[p].bookingId]
            IN IF events[bk.eventId].datetime < now
               THEN /\ tx'[p].pc = "respond"
                    /\ tx'[p].res = 400
                    /\ tx'[p].message = "Cannot cancel booking for past events"
                    /\ events' = events
                    /\ bookings' = bookings
                    /\ bookings'[tx'[p].bookingId].status = "confirmed"
               ELSE tx'[p].pc = "c_write"]_vars

C17_Witness ==
  \E p \in Procs :
    /\ tx[p].kind = "cancel" /\ tx[p].pc = "respond" /\ tx[p].res = 400
    /\ tx[p].message = "Cannot cancel booking for past events"
    /\ Active(tx[p].bookingId)
    /\ events[bookings[tx[p].bookingId].eventId].datetime < now

\* a cancel at now = startTime is let through to its writes
C17_BoundaryReached ==
  \E p \in Procs :
    /\ tx[p].kind = "cancel" /\ tx[p].pc = "respond" /\ tx[p].res = 200
    /\ events[tx[p].eventId].datetime = now

\* C18: every step keeps every booking row; a row's status stays, or goes
\* from confirmed to cancelled; a new row is confirmed; so no row is ever
\* pending and a cancelled row stays cancelled
C18_Lifecycle ==
  [][/\ Len(bookings') >= Len(bookings)
     /\ \A i \in BookingIdx :
          \/ bookings'[i].status = bookings[i].status
          \/ bookings[i].status = "confirmed" /\ bookings'[i].status = "cancelled"
     /\ \A i \in BookingIdx : bookings[i].status = "cancelled"
                                => bookings'[i].status = "cancelled"
     /\ \A i \in (1..Len(bookings')) \ BookingIdx : bookings'[i].status = "confirmed"
     /\ \A i \in 1..Len(bookings') : bookings'[i].status \in {"confirmed", "cancelled"}]_vars

\* two requests cancel one confirmed booking concurrently: the second write
\* meets a row that is cancelled already
C18_Witness ==
  \E p, q \in Procs :
    /\ p # q
    /\ tx[p].kind = "cancel" /\ tx[p].pc = "respond" /\ tx[p].res = 200
    /\ tx[q].kind = "cancel" /\ tx[q].pc = "c_write"
    /\ tx[q].bookingId = tx[p].bookingId
    /\ bookings[tx[p].bookingId].status = "cancelled"
    /\ \E i \in BookingIdx : bookings[i].status = "confirmed"

\* C19: a new booking row has totalAmount = the event's price x
\* numberOfSeats, and no step changes the totalAmount of a row that exists
C19_TotalAmountFrozen ==
  [][/\ \A i \in BookingIdx : bookings'[i].totalAmount = bookings[i].totalAmount
     /\ \A i \in (1..Len(bookings')) \ BookingIdx :
          bookings'[i].totalAmount
            = events[bookings'[i].eventId].price * bookings'[i].numberOfSeats]_vars

\* a cancelled booking keeps the amount of the price it was made at, after
\* the admin changed the price
C19_Witness ==
  \E i \in BookingIdx :
    /\ bookings[i].status = "cancelled"
    /\ bookings[i].totalAmount > 0
    /\ bookings[i].totalAmount
         # events[bookings[i].eventId].price * bookings[i].numberOfSeats

\* C20: a list request returns exactly the rows whose userId is the caller;
\* a detail request returns the row named when it is the caller's, and 404
\* with no row when there is no such row or it is another user's
C20_QueriesScoped ==
  [][\A p \in Procs :
       /\ (tx[p].pc = "done" /\ tx'[p].kind = "list")
            => /\ tx'[p].res = 200
               /\ \A i \in BookingIdx :
                    i \in tx'[p].rows <=> bookings[i].userId = tx'[p].user
               /\ tx'[p].rows \subseteq BookingIdx
       /\ (tx[p].pc = "done" /\ tx'[p].kind = "detail")
            => LET b == tx'[p].bookingId
               IN IF b \in BookingIdx /\ bookings[b].userId = tx'[p].user
                  THEN tx'[p].res = 200 /\ tx'[p].rows = {b}
                  ELSE tx'[p].res = 404 /\ tx'[p].rows = {}
       /\ (tx[p].pc = "done" /\ tx'[p].kind \in {"list", "detail"})
            => events' = events /\ bookings' = bookings]_vars

C20_Witness ==
  \E p, q \in Procs :
    /\ tx[p].kind = "list" /\ tx[p].pc = "respond"
    /\ tx[p].rows # {}
    /\ \E i \in BookingIdx : bookings[i].userId # tx[p].user
    /\ tx[q].kind = "detail" /\ tx[q].pc = "respond" /\ tx[q].res = 404
    /\ tx[q].bookingId \in BookingIdx
    /\ bookings[tx[q].bookingId].userId # tx[q].user

\* the step creates a booking of event e or cancels one
BookingChange(e) ==
  \/ \E i \in (1..Len(bookings')) \ BookingIdx : bookings'[i].eventId = e
  \/ \E i \in BookingIdx :
       /\ bookings[i].eventId = e
       /\ bookings'[i].status # bookings[i].status

\* C21: a step that changes the availableSeats of an event also creates or
\* cancels a booking of that event
C21_SeatsOnlyWithBooking ==
  [][\A e \in EventIds :
       (events[e].exists /\ events'[e].availableSeats # events[e].availableSeats)
         => BookingChange(e)]_vars

\* the columns of an event an admin manages
ManagedFields(ev) ==
  <<ev.exists, ev.totalSeats, ev.price, ev.datetime, ev.isActive>>

\* C22: an event create, update or delete request of a principal who is not
\* an admin is answered 403 in its first step and changes no event; and a
\* step that changes totalSeats, price, startTime or isActive of an event, or
\* creates one, is a step of an admin's create, update or delete request
C22_AdminOnly ==
  [][\A p \in Procs :
       /\ (/\ tx[p].pc = "done"
           /\ tx'[p].kind \in {"create", "update", "delete"}
           /\ tx'[p].user \notin Admins)
            => /\ tx'[p].pc = "respond"
               /\ tx'[p].res = 403
               /\ events' = events
       /\ (/\ tx'[p] # tx[p]
           /\ \E e \in EventIds : ManagedFields(events'[e]) # ManagedFields(events[e]))
            => /\ tx'[p].kind \in {"create", "update", "delete"}
               /\ tx'[p].user \in Admins]_vars

C22_Witness ==
  \E p \in Procs :
    /\ tx[p].kind \in {"update", "delete"} /\ tx[p].pc = "respond" /\ tx[p].res = 403
    /\ tx[p].user \in Users
    /\ events[tx[p].eventId].exists /\ events[tx[p].eventId].isActive

\* how far a booking handler is: each await takes it one position on
PcRank(pc) ==
  CASE pc = "done" -> 0
    [] pc = "r_existing" -> 1
    [] pc \in {"r_write", "c_write"} -> 2
    [] pc = "r_fetch" -> 3
    [] OTHER -> 4

\* C23: a step of a create-booking or cancel request in flight takes the
\* same request strictly forward, so its reads and its writes run at most
\* once; and a write step that meets a conflict on the unique index ends
\* the request with a failure answer and changes no row
C23_NoRetry ==
  [][\A p \in Procs :
       (/\ tx'[p] # tx[p]
        /\ tx[p].kind \in {"reserve", "cancel"}
        /\ tx[p].pc \notin {"done", "respond"})
         => /\ tx'[p].kind = tx[p].kind
            /\ tx'[p].user = tx[p].user
            /\ PcRank(tx'[p].pc) > PcRank(tx[p].pc)
            /\ (tx[p].pc = "r_write" /\ UniqueViolation(tx[p].user, tx[p].eventId))
                 => /\ tx'[p].pc = "respond" /\ tx'[p].res = 409
                    /\ events' = events /\ bookings' = bookings]_vars

\* a create-booking request lost the race for the unique index and was
\* answered with the conflict
C23_Witness ==
  \E p \in Procs :
    /\ tx[p].kind = "reserve" /\ tx[p].pc = "respond"
    /\ tx[p].message = "Resource already exists"
    /\ tx[p].bookingId = 0
    /\ \E i \in BookingIdx :
         /\ bookings[i].userId = tx[p].user
         /\ bookings[i].eventId = tx[p].eventId
         /\ Active(i)

\* C24: a create-event request that succeeds inserts one event with
\* availableSeats = totalSeats >= 1 and no booking, so that totalSeats -
\* availableSeats is the sum of its bookings' seats right after; a request
\* that is refused inserts nothing
C24_CreatedFull ==
  [][\A p \in Procs :
       (tx[p].pc = "done" /\ tx'[p].kind = "create")
         => IF tx'[p].res = 201
            THEN \E e \in EventIds :
                    /\ e = tx'[p].eventId
                    /\ ~events[e].exists /\ events'[e].exists
                    /\ events'[e].totalSeats = tx'[p].body.totalSeats
                    /\ events'[e].totalSeats >= 1
                    /\ events'[e].availableSeats = events'[e].totalSeats
                    /\ \A i \in 1..Len(bookings') : bookings'[i].eventId # e
                    /\ events'[e].totalSeats - events'[e].availableSeats
                         = BookedSeats(e)'
                    /\ \A x \in EventIds \ {e} : events'[x] = events[x]
            ELSE /\ tx'[p].res \in {400, 403}
                 /\ events' = events
                 /\ bookings' = bookings]_vars

C24_Witness ==
  \E p \in Procs :
    /\ tx[p].kind = "create" /\ tx[p].pc = "respond" /\ tx[p].res = 201
    /\ events[tx[p].eventId].totalSeats = MaxSeats
    /\ events[tx[p].eventId].availableSeats = MaxSeats
    /\ BookedSeats(tx[p].eventId) = 0

\* a create-event request with totalSeats = 0 is refused
C24_ZeroSeatsRefused ==
  \E p \in Procs :
    /\ tx[p].kind = "create" /\ tx[p].pc = "respond" /\ tx[p].res = 400
    /\ tx[p].user \in Admins
    /\ tx[p].body.totalSeats = 0 /\ tx[p].body.price >= 0 /\ tx[p].body.datetime > now

\* totalSeats - availableSeats of event e is the sum of the seats of its
\* non-cancelled bookings
SeatInvariantOf(e) ==
  events[e].totalSeats - events[e].availableSeats = BookedSeats(e)

\* C25: an admin update that gives totalSeats = T, on an event whose seat
\* counts agree with its bookings, is refused with 400 and no change when T
\* is less than the booked count, and otherwise succeeds and leaves the
\* seat counts in agreement with the bookings, also when create-booking and
\* cancel requests run concurrently
C25_UpdateKeepsBooked ==
  [][\A p \in Procs, e \in EventIds :
       (/\ tx[p].kind = "update" /\ tx[p].eventId = e
        /\ tx[p].body.totalSeats # 0
        /\ tx'[p] # tx[p]
        /\ tx'[p].pc = "respond"
        /\ tx'[p].res \in {200, 400}
        /\ SeatInvariantOf(e))
         => IF tx[p].body.totalSeats < BookedSeats(e)
            THEN tx'[p].res = 400 /\ events' = events
            ELSE /\ tx'[p].res = 200
                 /\ SeatInvariantOf(e)']_vars

\* C26: a delete request that succeeds changes isActive of its event to
\* FALSE and nothing else; no step makes an inactive event active; a
\* create-booking request with a valid body for an inactive event is
\* answered 404; a cancel request of the owner for a confirmed booking of an
\* inactive event that has not started goes to its writes, and its write
\* step cancels the booking and gives its seats back
C26_SoftDelete ==
  [][\A p \in Procs :
       /\ (tx[p].kind = "delete" /\ tx[p].pc = "d_write" /\ tx'[p].res = 200)
            => /\ events' = [events EXCEPT ![tx[p].eventId].isActive = FALSE]
               /\ bookings' = bookings
       /\ \A e \in EventIds :
            (events[e].exists /\ ~events[e].isActive) => ~events'[e].isActive
       /\ (/\ tx[p].pc = "done" /\ tx'[p].kind = "reserve"
           /\ ValidBookingBody(tx'[p].numberOfSeats)
           /\ events[tx'[p].eventId].exists
           /\ ~events[tx'[p].eventId].isActive)
            => /\ tx'[p].pc = "respond" /\ tx'[p].res = 404
               /\ events' = events /\ bookings' = bookings
       /\ (/\ tx[p].pc = "done" /\ tx'[p].kind = "cancel"
           /\ tx'[p].bookingId \in BookingIdx
           /\ bookings[tx'[p].bookingId].userId = tx'[p].user
           /\ Active(tx'[p].bookingId)
           /\ ~events[bookings[tx'[p].bookingId].eventId].isActive
           /\ events[bookings[tx'[p].bookingId].eventId].datetime >= now)
            => tx'[p].pc = "c_write"
       /\ (/\ tx[p].kind = "cancel" /\ tx[p].pc = "c_write" /\ tx'[p] # tx[p]
           /\ ~events[tx[p].eventId].isActive)
            => /\ tx'[p].res = 200
               /\ bookings'[tx[p].bookingId].status = "cancelled"
               /\ events'[tx[p].eventId].availableSeats
                    = events[tx[p].eventId].availableSeats
                      + bookings[tx[p].bookingId].numberOfSeats
               /\ ~events'[tx[p].eventId].isActive]_vars

C26_Witness ==
  \E p \in Procs :
    /\ tx[p].kind = "cancel" /\ tx[p].pc = "respond" /\ tx[p].res = 200
    /\ ~events[tx[p].eventId].isActive
    /\ events[tx[p].eventId].availableSeats = events[tx[p].eventId].totalSeats
    /\ bookings[tx[p].bookingId].numberOfSeats > 1

\* C27: after every step every booking row has 1 <= numberOfSeats <= 10 and
\* totalAmount >= 0; a create-booking request with numberOfSeats outside
\* 1..10 is answered 400 in its first step, before any read, and changes no
\* row
C27_SeatsInRange ==
  [][/\ \A i \in 1..Len(bookings') :
          /\ bookings'[i].numberOfSeats >= MinSeatsPerBooking
          /\ bookings'[i].numberOfSeats <= MaxSeatsPerBooking
          /\ bookings'[i].totalAmount >= 0
     /\ \A p \in Procs :
          (/\ tx[p].pc = "done" /\ tx'[p].kind = "reserve"
           /\ tx'[p].numberOfSeats \notin MinSeatsPerBooking..MaxSeatsPerBooking)
            => /\ tx'[p].pc = "respond"
               /\ tx'[p].res = 400
               /\ tx'[p].message = "Validation error"
               /\ tx'[p].event = NoEvent
               /\ events' = events
               /\ bookings' = bookings]_vars

C27_Witness ==
  \E p \in Procs :
    /\ tx[p].kind = "reserve" /\ tx[p].pc = "respond" /\ tx[p].res = 400
    /\ tx[p].numberOfSeats = 0
    /\ events[tx[p].eventId].exists /\ events[tx[p].eventId].isActive
    /\ events[tx[p].eventId].availableSeats > 0
    /\ ~ExistingBooking(tx[p].user, tx[p].eventId)
    /\ \E i \in BookingIdx : bookings[i].numberOfSeats = MaxSeats

\* a request for more than 10 seats is refused by the schema
C27_AboveRangeRefused ==
  \E p \in Procs :
    /\ tx[p].kind = "reserve" /\ tx[p].pc = "respond" /\ tx[p].res = 400
    /\ tx[p].numberOfSeats > MaxSeatsPerBooking
    /\ tx[p].message = "Validation error"

\* the step changes no event but e, and of e nothing but the seat count
OnlySeatsOf(e) ==
  /\ \A x \in DOMAIN events : x # e => events'[x] = events[x]
  /\ ManagedFields(events'[e]) = ManagedFields(events[e])

\* C28: the commit of a create-booking request adds one row, keeps every
\* row there was, and changes no event but its own, of which it changes
\* availableSeats only; the commit of a cancel request changes the status
\* of its booking and nothing else of any row, and changes no event but
\* the booking's, of which it changes availableSeats only
C28_Frame ==
  [][\A p \in Procs :
       /\ (tx[p].kind = "reserve" /\ tx[p].pc = "r_write" /\ tx'[p].pc = "r_fetch")
            => /\ Len(bookings') = Len(bookings) + 1
               /\ \A i \in BookingIdx : bookings'[i] = bookings[i]
               /\ bookings'[Len(bookings')].eventId = tx[p].eventId
               /\ OnlySeatsOf(tx[p].eventId)
       /\ (tx[p].kind = "cancel" /\ tx[p].pc = "c_write" /\ tx'[p].res = 200)
            => /\ bookings' = [bookings EXCEPT ![tx[p].bookingId].status = "cancelled"]
               /\ OnlySeatsOf(bookings[tx[p].bookingId].eventId)]_vars

\* a cancel has succeeded while the other event holds a confirmed booking
\* and fewer seats than it was created with
C28_Witness ==
  \E p \in Procs :
    /\ tx[p].kind = "cancel" /\ tx[p].pc = "respond" /\ tx[p].res = 200
    /\ \E i \in BookingIdx :
         /\ bookings[i].eventId # tx[p].eventId
         /\ Active(i)
         /\ events[bookings[i].eventId].availableSeats
              < events[bookings[i].eventId].totalSeats

\* C29: of two cancel requests for one booking that run concurrently, at
\* most one is answered with success
C29_OneCancelSucceeds ==
  \A p, q \in Procs :
    (/\ p # q
     /\ tx[p].kind = "cancel" /\ tx[q].kind = "cancel"
     /\ tx[p].bookingId = tx[q].bookingId
     /\ tx[p].pc = "respond" /\ tx[q].pc = "respond")
      => ~(tx[p].res = 200 /\ tx[q].res = 200)

\* C30: every create-booking or cancel request in flight is eventually
\* answered
C30_EventuallyAnswered ==
  \A p \in Procs :
    (tx[p].kind \in {"reserve", "cancel"} /\ tx[p].pc \notin {"done", "respond"})
      ~> (tx[p].pc = "respond")

\* C31: a booking is only ever committed for an event that is active at the
\* moment of the commit
C31_NoBookingOnInactive ==
  [][Len(bookings') = Len(bookings) + 1
       => events[bookings'[Len(bookings')].eventId].isActive]_vars

====
